---- MODULE Spec2Model ----
(***************************************************************************)
(* State-machine model of src/main.py: the DHT11 telemetry agent.          *)
(*                                                                         *)
(* The single thread of main.py is modelled by a program counter pc; one   *)
(* action per statement group.  The radio link is the only part of the     *)
(* environment that changes on its own (LinkUp / LinkDown); the sensor     *)
(* driver and the HTTP transport answer each call with one of the outcomes *)
(* their contracts allow.                                                  *)
(*                                                                         *)
(* Python values that may be None are tagged tuples: <<"None">>,           *)
(* <<"str", s>>, <<"int", n>>.  A dict is a function from keys to values.  *)
(***************************************************************************)
EXTENDS Integers, Sequences, FiniteSets, TLC

VARIABLES
    file,            \* what open("config.json") finds
    config,          \* main: config
    associated,      \* what wlan.isconnected() answers
    wlanActive,      \* wlan.active(True) was called
    now,             \* time.time(), whole seconds
    pc,              \* position of the single thread
    ssid, key, timeout_sec, start_time,   \* frame of connect_to_wifi
    connectResult,   \* value connect_to_wifi returned: "pending", "True", "False"
    firstCheck,      \* answer of the isconnected() of line 28
    connectCalls,    \* number of wlan.connect calls
    pollSleeps,      \* number of time.sleep(1) of line 36
    exit,            \* "none", "status1" (sys.exit(1)), or the uncaught exception
    headers, influxdb_url, endpointBuilds,
    sensor,          \* "uninit" or "ready"
    cycle,           \* iterations of the main loop started
    t_local,         \* get_temperature_and_humidity: local temperature
    temperature, humidity,   \* main: temperature, humidity
    sampleTrace,     \* driver calls and sleeps of the current sample call
    data,            \* main: data
    postsThisCycle,  \* requests.post calls in the current iteration
    lastPost,        \* "none", "response", "transport_error"
    status_code,     \* response.status_code of the last response
    publishOutcome,  \* what send_to_influxdb printed: "sent" or "failed"
    sleepsThisCycle, \* time.sleep(wait_time) calls in the current iteration
    lastSleep,       \* argument of the last time.sleep(wait_time)
    pollChecks,      \* number of wlan.isconnected() calls of line 32
    linkUpAt,        \* time.time() when the link came up during the call, or -1
    bootTrace,       \* start-up steps taken so far, in order
    request          \* arguments of the last requests.post, and the link then

vars == <<file, config, associated, wlanActive, now, pc, ssid, key, timeout_sec,
          start_time, connectResult, firstCheck, connectCalls, pollSleeps, exit,
          headers, influxdb_url, endpointBuilds, sensor, cycle, t_local,
          temperature, humidity, sampleTrace, data, postsThisCycle, lastPost,
          status_code, publishOutcome, sleepsThisCycle, lastSleep,
          pollChecks, linkUpAt, bootTrace, request>>

connectVars == <<ssid, key, timeout_sec, start_time, connectResult, firstCheck,
                 connectCalls, pollSleeps, wlanActive, pollChecks, linkUpAt>>
bootVars == <<config, exit, headers, influxdb_url, endpointBuilds, sensor,
              bootTrace>>
sampleVars == <<t_local, temperature, humidity, sampleTrace>>
publishVars == <<data, postsThisCycle, lastPost, status_code, publishOutcome,
                 request>>
sleepVars == <<sleepsThisCycle, lastSleep>>

----------------------------------------------------------------------------
(* Bounds of the model *)

MaxCycles == 2        \* main-loop iterations explored
MaxTimeout == 3       \* largest timeout_sec tried on connect_to_wifi alone

(* Program constants *)

DEFAULT_WAIT_TIME == 60
DefaultTimeout == 30
SensorPin == 4
PollInterval == 1
SettleDelay == 1
SuccessStatus == 204
DefaultPort == 8086

----------------------------------------------------------------------------
(* Python values *)

None == <<"None">>
PyStr(s) == <<"str", s>>
PyInt(n) == <<"int", n>>
Unbound == <<"unbound">>

\* dict.get(k, dflt)
Get(d, k, dflt) == IF k \in DOMAIN d THEN d[k] ELSE dflt

\* str.format / f-string rendering of a value
Str(v) == CASE v[1] = "None" -> "None"
            [] v[1] = "str" -> v[2]
            [] v[1] = "int" -> ToString(v[2])

EmptyDict == <<>>

----------------------------------------------------------------------------
(* config.json: what the file system holds at start-up *)

WifiNet == [ssid |-> PyStr("net"), key |-> PyStr("pw")]
InfluxFull == [host |-> PyStr("db.local"), port |-> PyInt(9999),
               bucket |-> PyStr("b"), org |-> PyStr("o"), token |-> PyStr("tok")]

FileStates == {"missing", "malformed", "empty", "scenario", "fast",
               "no_influx", "no_wifi", "blank_ssid"}

\* json.load(f) of a well-formed file
JsonLoad(f) ==
    CASE f = "empty" -> EmptyDict
      [] f = "scenario" -> [wifi |-> WifiNet, influxdb |-> InfluxFull]
      [] f = "fast" -> [wifi |-> WifiNet, influxdb |-> InfluxFull,
                        reading_wait_time |-> PyInt(5)]
      [] f = "no_influx" -> [wifi |-> WifiNet, reading_wait_time |-> PyInt(120)]
      [] f = "no_wifi" -> [influxdb |-> InfluxFull]
      [] f = "blank_ssid" -> [wifi |-> [ssid |-> PyStr(""), key |-> PyStr("")],
                              influxdb |-> [host |-> PyStr("db.local")]]

\* load_config: FileNotFoundError and JSONDecodeError leave config = {}
load_config(f) ==
    IF f \in {"missing", "malformed"} THEN EmptyDict ELSE JsonLoad(f)

----------------------------------------------------------------------------
(* The radio link (network.WLAN), outside the program's control *)

\* the access point in range accepts exactly these credentials
Joinable(s, k) == s = PyStr("net") /\ k = PyStr("pw")

\* the station associates: only once the program has asked it to
LinkUp ==
    /\ ~associated
    /\ wlanActive
    /\ connectCalls > 0
    /\ Joinable(ssid, key)
    /\ pc \notin {"exited"}
    /\ associated' = TRUE
    /\ linkUpAt' = IF connectResult = "pending" THEN now ELSE linkUpAt
    /\ UNCHANGED <<file, now, pc, ssid, key, timeout_sec, start_time,
                   connectResult, firstCheck, connectCalls, pollSleeps,
                   wlanActive, pollChecks, bootVars, cycle, sampleVars,
                   publishVars, sleepVars>>

\* the link is lost
LinkDown ==
    /\ associated
    /\ pc \notin {"exited"}
    /\ associated' = FALSE
    /\ linkUpAt' = IF connectResult = "pending" THEN -1 ELSE linkUpAt
    /\ UNCHANGED <<file, now, pc, ssid, key, timeout_sec, start_time,
                   connectResult, firstCheck, connectCalls, pollSleeps,
                   wlanActive, pollChecks, bootVars, cycle, sampleVars,
                   publishVars, sleepVars>>

----------------------------------------------------------------------------
(* connect_to_wifi(ssid, key, timeout_sec) *)

\* the comparison of line 33 written with >=
TimedOutInclusive(t, start, timeout) == t - start >= timeout

\* line 33: time.time() - start_time > timeout_sec
TimedOut(t, start, timeout) == t - start > timeout

\* lines 26-27: wlan = network.WLAN(STA_IF); wlan.active(True)
ConnectEnter ==
    /\ pc = "c_enter"
    /\ wlanActive' = TRUE
    /\ pc' = "c_if"
    /\ bootTrace' = Append(bootTrace, "connect")
    /\ UNCHANGED <<file, associated, now, ssid, key, timeout_sec, linkUpAt,
                   pollChecks, start_time, connectResult, firstCheck,
                   connectCalls, pollSleeps, config, exit, headers, influxdb_url,
                   endpointBuilds, sensor, cycle, sampleVars, publishVars,
                   sleepVars>>

\* connect_to_wifi without the test of line 28: wlan.connect is always called
ConnectFastPathReconnects ==
    /\ pc = "c_if"
    /\ associated
    /\ firstCheck' = "True"
    /\ connectCalls' = connectCalls + 1
    /\ connectResult' = "True"
    /\ pc' = "m_branch"
    /\ UNCHANGED <<file, associated, now, ssid, key, timeout_sec, linkUpAt,
                   pollChecks, start_time,
                   pollSleeps, wlanActive, bootVars, cycle, sampleVars,
                   publishVars, sleepVars>>

\* line 28 false, line 37: already associated, return True
ConnectFastPath ==
    /\ pc = "c_if"
    /\ associated
    /\ firstCheck' = "True"
    /\ connectResult' = "True"
    /\ pc' = "m_branch"
    /\ UNCHANGED <<file, associated, now, ssid, key, timeout_sec, linkUpAt,
                   pollChecks, start_time,
                   connectCalls, pollSleeps, wlanActive, bootVars, cycle,
                   sampleVars, publishVars, sleepVars>>

\* lines 28-31: not associated: wlan.connect(ssid, key); start_time = time.time()
ConnectInitiate ==
    /\ pc = "c_if"
    /\ ~associated
    /\ firstCheck' = "False"
    /\ connectCalls' = connectCalls + 1
    /\ start_time' = now
    /\ pc' = "c_while"
    /\ UNCHANGED <<file, associated, now, ssid, key, timeout_sec, linkUpAt,
                   pollChecks, connectResult, pollSleeps, wlanActive, bootVars,
                   cycle, sampleVars, publishVars, sleepVars>>

\* the loop testing the timeout before the link: a link that is up at the
\* poll after the timeout still gives False
ConnectPollConnectedTimeoutFirst ==
    /\ pc = "c_while"
    /\ associated
    /\ connectResult' = IF TimedOut(now, start_time, timeout_sec)
                        THEN "False" ELSE "True"
    /\ pc' = "m_branch"
    /\ pollChecks' = pollChecks + 1
    /\ UNCHANGED <<file, associated, now, ssid, key, timeout_sec, linkUpAt,
                   start_time, firstCheck, connectCalls, pollSleeps, wlanActive,
                   bootVars, cycle, sampleVars, publishVars, sleepVars>>

\* line 32 false, line 37: the poll finds the link up, return True
ConnectPollConnected ==
    /\ pc = "c_while"
    /\ associated
    /\ connectResult' = "True"
    /\ pc' = "m_branch"
    /\ pollChecks' = pollChecks + 1
    /\ UNCHANGED <<file, associated, now, ssid, key, timeout_sec, linkUpAt,
                   start_time, firstCheck, connectCalls, pollSleeps, wlanActive,
                   bootVars, cycle, sampleVars, publishVars, sleepVars>>

\* line 35 leaving the loop instead of returning False: line 37 returns True
ConnectPollTimeoutReturnsTrue ==
    /\ pc = "c_while"
    /\ ~associated
    /\ TimedOut(now, start_time, timeout_sec)
    /\ connectResult' = "True"
    /\ pc' = "m_branch"
    /\ pollChecks' = pollChecks + 1
    /\ UNCHANGED <<file, associated, now, ssid, key, timeout_sec, linkUpAt,
                   start_time, firstCheck, connectCalls, pollSleeps, wlanActive,
                   bootVars, cycle, sampleVars, publishVars, sleepVars>>

\* lines 32-35: not associated and timed out, return False
ConnectPollTimeout ==
    /\ pc = "c_while"
    /\ ~associated
    /\ TimedOut(now, start_time, timeout_sec)
    /\ connectResult' = "False"
    /\ pc' = "m_branch"
    /\ pollChecks' = pollChecks + 1
    /\ UNCHANGED <<file, associated, now, ssid, key, timeout_sec, linkUpAt,
                   start_time, firstCheck, connectCalls, pollSleeps, wlanActive,
                   bootVars, cycle, sampleVars, publishVars, sleepVars>>

\* lines 32-33: not associated and not timed out, go on to the sleep
ConnectPollAgain ==
    /\ pc = "c_while"
    /\ ~associated
    /\ ~TimedOut(now, start_time, timeout_sec)
    /\ pc' = "c_sleep"
    /\ pollChecks' = pollChecks + 1
    /\ UNCHANGED <<file, associated, now, ssid, key, timeout_sec, start_time,
                   connectResult, firstCheck, connectCalls, pollSleeps,
                   wlanActive, linkUpAt, bootVars, cycle,
                   sampleVars, publishVars, sleepVars>>

\* the loop calling wlan.connect(ssid, key) again before every sleep
ConnectPollSleepReconnects ==
    /\ pc = "c_sleep"
    /\ now' = now + PollInterval
    /\ pollSleeps' = pollSleeps + 1
    /\ connectCalls' = connectCalls + 1
    /\ pc' = "c_while"
    /\ UNCHANGED <<file, associated, ssid, key, timeout_sec, linkUpAt,
                   pollChecks, start_time, connectResult, firstCheck, wlanActive,
                   bootVars, cycle, sampleVars, publishVars, sleepVars>>

\* line 36: time.sleep(1)
ConnectPollSleep ==
    /\ pc = "c_sleep"
    /\ now' = now + PollInterval
    /\ pollSleeps' = pollSleeps + 1
    /\ pc' = "c_while"
    /\ UNCHANGED <<file, associated, ssid, key, timeout_sec, linkUpAt,
                   pollChecks, start_time,
                   connectResult, firstCheck, connectCalls, wlanActive, bootVars,
                   cycle, sampleVars, publishVars, sleepVars>>

connect_to_wifi ==
    \/ ConnectEnter
    \/ ConnectFastPath
    \/ ConnectInitiate
    \/ ConnectPollConnected
    \/ ConnectPollTimeout
    \/ ConnectPollAgain
    \/ ConnectPollSleep

----------------------------------------------------------------------------
(* TelemetryPublisher: pure functions of config *)

\* set_influxdb_headers(config)
set_influxdb_headers(c) ==
    LET influxdb_config == Get(c, "influxdb", EmptyDict)
    IN  [Authorization |-> "Token " \o Str(Get(influxdb_config, "token", None)),
         ContentType |-> "text/plain; charset=utf-8",
         Accept |-> "application/json"]

\* get_influxdb_url(config)
get_influxdb_url(c) ==
    LET influxdb_config == Get(c, "influxdb", EmptyDict)
        host == Get(influxdb_config, "host", PyStr("localhost"))
        port == Get(influxdb_config, "port", PyInt(DefaultPort))
        bucket == Get(influxdb_config, "bucket", None)
        org == Get(influxdb_config, "org", None)
    IN  Str(host) \o ":" \o Str(port) \o "/api/v2/write?org=" \o Str(org)
          \o "&bucket=" \o Str(bucket) \o "&precision=ns"

\* f"{x}" instead of f"{x:.1f}"
FmtPlain(n) == ToString(n)

\* f"{x:.1f}" of a whole number, as the DHT11 driver reports them
Fmt1f(n) == ToString(n) \o ".0"

\* line 128: the line-protocol payload
FormatData(t, h) ==
    "dht_sensor,sensor_id=esp8266 temperature=" \o Fmt1f(t[2])
      \o ",humidity=" \o Fmt1f(h[2])

\* line 126 written as all([temperature, humidity]): 0 counts as absent
BothTruthy(t, h) ==
    /\ t # None /\ t[2] # 0
    /\ h # None /\ h[2] # 0

\* line 126: all([temperature is not None, humidity is not None])
BothPresent(t, h) == t # None /\ h # None

\* line 88 accepting every 2xx status
IsSuccessAny2xx(code) == code \in 200..299

\* line 88: response.status_code == 204
IsSuccess(code) == code = SuccessStatus

\* line 135: config.get("reading_wait_time", DEFAULT_WAIT_TIME)
WaitTime(c) == Get(c, "reading_wait_time", PyInt(DEFAULT_WAIT_TIME))[2]

----------------------------------------------------------------------------
(* __main__: Bootstrapping *)

\* load_config without its except clauses: the exception of open / json.load
\* leaves main
LoadConfigPropagates ==
    /\ pc = "load_config"
    /\ IF file \in {"missing", "malformed"}
       THEN /\ exit' = IF file = "missing" THEN "FileNotFoundError"
                       ELSE "JSONDecodeError"
            /\ pc' = "exited"
            /\ UNCHANGED <<config, ssid, key, timeout_sec>>
       ELSE /\ config' = load_config(file)
            /\ LET wifi_config == Get(config', "wifi", EmptyDict)
               IN  /\ ssid' = Get(wifi_config, "ssid", None)
                   /\ key' = Get(wifi_config, "key", None)
            /\ timeout_sec' = DefaultTimeout
            /\ pc' = "c_enter"
            /\ UNCHANGED exit
    /\ bootTrace' = Append(bootTrace, "load")
    /\ UNCHANGED <<file, associated, now, start_time, linkUpAt, pollChecks,
                   connectResult, firstCheck, connectCalls, pollSleeps,
                   wlanActive, headers, influxdb_url, endpointBuilds, sensor,
                   cycle, sampleVars, publishVars, sleepVars>>

\* lines 101-107: load the config, read the wifi section, call connect_to_wifi
LoadConfig ==
    /\ pc = "load_config"
    /\ config' = load_config(file)
    /\ LET wifi_config == Get(config', "wifi", EmptyDict)
       IN  /\ ssid' = Get(wifi_config, "ssid", None)
           /\ key' = Get(wifi_config, "key", None)
    /\ timeout_sec' = DefaultTimeout
    /\ pc' = "c_enter"
    /\ bootTrace' = Append(bootTrace, "load")
    /\ UNCHANGED <<file, associated, now, start_time, linkUpAt, pollChecks,
                   connectResult, firstCheck, connectCalls, pollSleeps,
                   wlanActive, exit, headers, influxdb_url, endpointBuilds,
                   sensor, cycle, sampleVars, publishVars, sleepVars>>

\* lines 107-110: connect_to_wifi returned True
MainConnected ==
    /\ pc = "m_branch"
    /\ connectResult = "True"
    /\ pc' = "m_endpoint"
    /\ UNCHANGED <<file, associated, now, connectVars, bootVars, cycle,
                   sampleVars, publishVars, sleepVars>>

\* the else branch without sys.exit(1): the failure is only printed
MainExitFallsThrough ==
    /\ pc = "m_branch"
    /\ connectResult = "False"
    /\ pc' = "m_endpoint"
    /\ UNCHANGED <<file, associated, now, connectVars, bootVars, cycle,
                   sampleVars, publishVars, sleepVars>>

\* lines 111-113: connect_to_wifi returned False: sys.exit(1)
MainExit ==
    /\ pc = "m_branch"
    /\ connectResult = "False"
    /\ exit' = "status1"
    /\ pc' = "exited"
    /\ UNCHANGED <<file, associated, now, connectVars, config, headers,
                   influxdb_url, endpointBuilds, sensor, bootTrace, cycle,
                   sampleVars, publishVars, sleepVars>>

\* lines 116-117: headers and URL
BuildEndpoint ==
    /\ pc = "m_endpoint"
    /\ headers' = set_influxdb_headers(config)
    /\ influxdb_url' = get_influxdb_url(config)
    /\ endpointBuilds' = endpointBuilds + 1
    /\ pc' = "m_sensor"
    /\ bootTrace' = Append(bootTrace, "endpoint")
    /\ UNCHANGED <<file, associated, now, connectVars, config, exit, sensor,
                   cycle, sampleVars, publishVars, sleepVars>>

\* line 120, lines 40-48: init_dht_sensor(4) returns the sensor
InitSensorOk ==
    /\ pc = "m_sensor"
    /\ sensor' = "ready"
    /\ pc' = "l_top"
    /\ bootTrace' = Append(bootTrace, "sensor")
    /\ UNCHANGED <<file, associated, now, connectVars, config, exit, headers,
                   influxdb_url, endpointBuilds, cycle, sampleVars, publishVars,
                   sleepVars>>

\* init_dht_sensor swallowing the exception: main goes on without a sensor
InitSensorFailsContinues ==
    /\ pc = "m_sensor"
    /\ pc' = "l_top"
    /\ bootTrace' = Append(bootTrace, "sensor")
    /\ UNCHANGED <<file, associated, now, connectVars, config, exit, headers,
                   influxdb_url, endpointBuilds, sensor, cycle, sampleVars,
                   publishVars, sleepVars>>

\* lines 43-46: the driver raises; init_dht_sensor re-raises, nothing catches
InitSensorFails ==
    /\ pc = "m_sensor"
    /\ \E e \in {"ValueError", "OSError"} : exit' = e
    /\ pc' = "exited"
    /\ bootTrace' = Append(bootTrace, "sensor")
    /\ UNCHANGED <<file, associated, now, connectVars, config, headers,
                   influxdb_url, endpointBuilds, sensor, cycle, sampleVars,
                   publishVars, sleepVars>>

----------------------------------------------------------------------------
(* get_temperature_and_humidity(sensor) *)

TempValues == {0, 21}
HumValues == {0, 40}

\* lines 123-125: one more iteration of while True begins with the sample call
LoopBegin ==
    /\ pc = "l_top"
    /\ cycle < MaxCycles
    /\ cycle' = cycle + 1
    /\ sampleTrace' = <<>>
    /\ t_local' = Unbound
    /\ postsThisCycle' = 0
    /\ sleepsThisCycle' = 0
    /\ pc' = "s_measure"
    /\ UNCHANGED <<file, associated, now, connectVars, bootVars, temperature,
                   humidity, data, lastPost, status_code, publishOutcome, request,
                   lastSleep>>

\* line 53: sensor.measure() succeeds
SampleMeasure ==
    /\ pc = "s_measure"
    /\ sampleTrace' = Append(sampleTrace, "measure")
    /\ pc' = "s_temp"
    /\ UNCHANGED <<file, associated, now, connectVars, bootVars, cycle, t_local,
                   temperature, humidity, publishVars, sleepVars>>

\* line 54: temperature = sensor.temperature()
SampleTemperature ==
    /\ pc = "s_temp"
    /\ \E v \in TempValues : t_local' = PyInt(v)
    /\ sampleTrace' = Append(sampleTrace, "temperature")
    /\ pc' = "s_settle"
    /\ UNCHANGED <<file, associated, now, connectVars, bootVars, cycle,
                   temperature, humidity, publishVars, sleepVars>>

\* get_temperature_and_humidity without line 55
SampleSettleSkipped ==
    /\ pc = "s_settle"
    /\ pc' = "s_hum"
    /\ UNCHANGED <<file, associated, now, connectVars, bootVars, cycle,
                   sampleVars, publishVars, sleepVars>>

\* line 55: time.sleep(1)
SampleSettle ==
    /\ pc = "s_settle"
    /\ now' = now + SettleDelay
    /\ sampleTrace' = Append(sampleTrace, "sleep")
    /\ pc' = "s_hum"
    /\ UNCHANGED <<file, associated, connectVars, bootVars, cycle, t_local,
                   temperature, humidity, publishVars, sleepVars>>

\* lines 56-57: humidity = sensor.humidity(); return temperature, humidity
SampleHumidity ==
    /\ pc = "s_hum"
    /\ \E v \in HumValues : humidity' = PyInt(v)
    /\ temperature' = t_local
    /\ sampleTrace' = Append(sampleTrace, "humidity")
    /\ pc' = "l_if"
    /\ UNCHANGED <<file, associated, now, connectVars, bootVars, cycle, t_local,
                   publishVars, sleepVars>>

\* the except clause returning what was read so far: return temperature, None
SampleFailsKeepsTemperature ==
    /\ pc \in {"s_measure", "s_temp", "s_hum"}
    /\ sampleTrace' = Append(sampleTrace, "OSError")
    /\ temperature' = t_local
    /\ humidity' = None
    /\ pc' = "l_if"
    /\ UNCHANGED <<file, associated, now, connectVars, bootVars, cycle, t_local,
                   publishVars, sleepVars>>

\* lines 58-60: a driver call raises OSError: return None, None
SampleFails ==
    /\ pc \in {"s_measure", "s_temp", "s_hum"}
    /\ sampleTrace' = Append(sampleTrace, "OSError")
    /\ temperature' = None
    /\ humidity' = None
    /\ pc' = "l_if"
    /\ UNCHANGED <<file, associated, now, connectVars, bootVars, cycle, t_local,
                   publishVars, sleepVars>>

get_temperature_and_humidity ==
    \/ SampleMeasure
    \/ SampleTemperature
    \/ SampleSettle
    \/ SampleHumidity
    \/ SampleFails

----------------------------------------------------------------------------
(* __main__: the Steady loop, and send_to_influxdb *)

StatusCodes == {204, 200, 400, 500}

\* lines 126-129: both values present: build the payload
LoopFormat ==
    /\ pc = "l_if"
    /\ BothPresent(temperature, humidity)
    /\ data' = FormatData(temperature, humidity)
    /\ pc' = "p_post"
    /\ UNCHANGED <<file, associated, now, connectVars, bootVars, cycle,
                   sampleVars, postsThisCycle, lastPost, status_code,
                   publishOutcome, request, sleepVars>>

\* a loop that posts the previous payload again when its delivery had failed
\* and this iteration has no Reading
LoopSkipResendsFailed ==
    /\ pc = "l_if"
    /\ ~BothPresent(temperature, humidity)
    /\ pc' = IF publishOutcome = "failed" THEN "p_post" ELSE "l_sleep"
    /\ UNCHANGED <<file, associated, now, connectVars, bootVars, cycle,
                   sampleVars, publishVars, sleepVars>>

\* line 126 false: a value is absent: straight to the sleep
LoopSkip ==
    /\ pc = "l_if"
    /\ ~BothPresent(temperature, humidity)
    /\ pc' = "l_sleep"
    /\ UNCHANGED <<file, associated, now, connectVars, bootVars, cycle,
                   sampleVars, publishVars, sleepVars>>

\* lines 132, 86-95: requests.post answers with a status code
PostResponse ==
    /\ pc = "p_post"
    /\ postsThisCycle' = postsThisCycle + 1
    /\ lastPost' = "response"
    /\ \E code \in StatusCodes :
         /\ status_code' = code
         /\ publishOutcome' = IF IsSuccess(code) THEN "sent" ELSE "failed"
    /\ pc' = "l_sleep"
    /\ request' = [url |-> influxdb_url, headers |-> headers, data |-> data,
                   link |-> associated]
    /\ UNCHANGED <<file, associated, now, connectVars, bootVars, cycle,
                   sampleVars, data, sleepVars>>

\* line 86: requests.post raises OSError (no response); nothing catches it
PostTransportError ==
    /\ pc = "p_post"
    /\ postsThisCycle' = postsThisCycle + 1
    /\ lastPost' = "transport_error"
    /\ exit' = "OSError"
    /\ pc' = "exited"
    /\ request' = [url |-> influxdb_url, headers |-> headers, data |-> data,
                   link |-> associated]
    /\ UNCHANGED <<file, associated, now, connectVars, config, headers,
                   influxdb_url, endpointBuilds, sensor, bootTrace, cycle,
                   sampleVars, data, status_code, publishOutcome, sleepVars>>

\* while True placed above lines 116-117: headers and URL rebuilt every time
LoopSleepRebuilds ==
    /\ pc = "l_sleep"
    /\ lastSleep' = WaitTime(config)
    /\ now' = now + WaitTime(config)
    /\ sleepsThisCycle' = sleepsThisCycle + 1
    /\ pc' = "m_endpoint"
    /\ UNCHANGED <<file, associated, connectVars, bootVars, cycle, sampleVars,
                   publishVars>>

\* a loop that calls connect_to_wifi again when it finds the link down
LoopSleepReconnects ==
    /\ pc = "l_sleep"
    /\ lastSleep' = WaitTime(config)
    /\ now' = now + WaitTime(config)
    /\ sleepsThisCycle' = sleepsThisCycle + 1
    /\ pc' = IF associated THEN "l_top" ELSE "c_enter"
    /\ UNCHANGED <<file, associated, connectVars, bootVars, cycle, sampleVars,
                   publishVars>>

\* lines 135-136: wait_time = config.get(...); time.sleep(wait_time)
LoopSleep ==
    /\ pc = "l_sleep"
    /\ lastSleep' = WaitTime(config)
    /\ now' = now + WaitTime(config)
    /\ sleepsThisCycle' = sleepsThisCycle + 1
    /\ pc' = "l_top"
    /\ UNCHANGED <<file, associated, connectVars, bootVars, cycle, sampleVars,
                   publishVars>>

----------------------------------------------------------------------------
(* The whole program *)

Blank ==
    /\ now = 0
    /\ wlanActive = FALSE
    /\ start_time = 0
    /\ connectResult = "pending"
    /\ firstCheck = "unset"
    /\ connectCalls = 0
    /\ pollSleeps = 0
    /\ exit = "none"
    /\ headers = Unbound
    /\ influxdb_url = Unbound
    /\ endpointBuilds = 0
    /\ sensor = "uninit"
    /\ cycle = 0
    /\ t_local = Unbound
    /\ temperature = Unbound
    /\ humidity = Unbound
    /\ sampleTrace = <<>>
    /\ data = Unbound
    /\ postsThisCycle = 0
    /\ lastPost = "none"
    /\ status_code = 0
    /\ publishOutcome = "none"
    /\ sleepsThisCycle = 0
    /\ lastSleep = 0
    /\ pollChecks = 0
    /\ linkUpAt = -1
    /\ bootTrace = <<>>
    /\ request = Unbound

\* python main.py: line 98
Init ==
    /\ Blank
    /\ file \in FileStates
    /\ associated \in BOOLEAN
    /\ config = Unbound
    /\ ssid = Unbound
    /\ key = Unbound
    /\ timeout_sec = DefaultTimeout
    /\ pc = "load_config"

Next ==
    \/ LoadConfig
    \/ connect_to_wifi
    \/ MainConnected
    \/ MainExit
    \/ BuildEndpoint
    \/ InitSensorOk
    \/ InitSensorFails
    \/ LoopBegin
    \/ get_temperature_and_humidity
    \/ LoopFormat
    \/ LoopSkip
    \/ PostResponse
    \/ PostTransportError
    \/ LoopSleep
    \/ LinkUp
    \/ LinkDown

Spec == Init /\ [][Next]_vars

(* connect_to_wifi on its own, called with any credentials and timeout *)

SsidValues == {None, PyStr(""), PyStr("net")}
KeyValues == {None, PyStr("pw")}

InitConnect ==
    /\ Blank
    /\ file = "missing"
    /\ config = EmptyDict
    /\ associated \in BOOLEAN
    /\ ssid \in SsidValues
    /\ key \in KeyValues
    /\ timeout_sec \in 0..MaxTimeout
    /\ pc = "c_enter"

NextConnect ==
    \/ connect_to_wifi
    \/ LinkUp
    \/ LinkDown

SpecConnect == InitConnect /\ [][NextConnect]_vars

\* the single thread keeps running: a step of connect_to_wifi that can be taken is taken
SpecConnectFair == SpecConnect /\ WF_vars(connect_to_wifi)

----------------------------------------------------------------------------
(* Properties *)

Range(seq) == {seq[i] : i \in DOMAIN seq}
Present(x) == x[1] = "int"
Elapsed == now - start_time
SamplePcs == {"s_measure", "s_temp", "s_settle", "s_hum"}

\* C1: when association never succeeds connect_to_wifi returns False, and it
\* does so at an elapsed time (advanced only by the 1-second poll sleeps) that
\* is greater than timeout_sec and at most timeout_sec + 1; while it is still
\* polling, elapsed time never exceeds timeout_sec + 1.
C1_TimeoutWindow ==
    /\ [](connectResult = "False" =>
            /\ Elapsed > timeout_sec
            /\ Elapsed <= timeout_sec + 1
            /\ connectCalls = 1)
    /\ [](pc \in {"c_while", "c_sleep"} => Elapsed <= timeout_sec + 1)
    /\ [](pc = "c_sleep" => Elapsed <= timeout_sec)
    /\ (([]~associated) => <>(connectResult = "False"))

C1_Witness ==
    /\ connectResult = "False"
    /\ timeout_sec > 0
    /\ Elapsed = timeout_sec + 1
    /\ pollSleeps = timeout_sec + 1

\* C2: if the interface is associated at the check that opens connect_to_wifi,
\* the call returns True at once: no wlan.connect, no poll sleep, no time
\* passed, whatever ssid, key and timeout_sec are.
C2_FastPath ==
    firstCheck = "True" =>
        /\ connectResult = "True"
        /\ pc = "m_branch"
        /\ connectCalls = 0
        /\ pollSleeps = 0
        /\ now = 0

C2_Witness ==
    /\ firstCheck = "True"
    /\ connectResult = "True"
    /\ ssid = PyStr("")
    /\ key = None
    /\ timeout_sec = 0

\* C3: once connect_to_wifi has returned False during start-up, the only
\* thing the process does is exit with status 1: no endpoint is built, the
\* sensor is not initialised, no sample is taken and nothing is posted.
C3_ConnectFailureIsFatal ==
    connectResult = "False" =>
        /\ pc \in {"m_branch", "exited"}
        /\ (pc = "exited" => exit = "status1")
        /\ (pc = "m_branch" => exit = "none")
        /\ endpointBuilds = 0
        /\ sensor = "uninit"
        /\ cycle = 0
        /\ sampleTrace = <<>>
        /\ postsThisCycle = 0
        /\ lastPost = "none"

C3_Witness ==
    /\ connectResult = "False"
    /\ pc = "exited"
    /\ exit = "status1"

\* C4: in every iteration of the loop a POST is issued exactly when the
\* sample of that iteration gave both values; with a value absent there is no
\* POST, the process does not stop and the iteration ends with its sleep.
C4_PublishIffBothPresent ==
    /\ postsThisCycle <= 1
    /\ (pc \in SamplePcs \cup {"l_if", "p_post"} => postsThisCycle = 0)
    /\ (pc = "p_post" => Present(temperature) /\ Present(humidity))
    /\ (pc \in {"l_sleep", "l_top"} /\ cycle > 0 =>
            (postsThisCycle = 1 <=> (Present(temperature) /\ Present(humidity))))
    /\ (pc = "exited" /\ cycle > 0 =>
            postsThisCycle = 1 /\ Present(temperature) /\ Present(humidity))
    /\ (pc = "l_top" /\ cycle > 0 => sleepsThisCycle = 1)

C4_Witness ==
    /\ pc = "l_top"
    /\ cycle = 2
    /\ temperature = None
    /\ humidity = None
    /\ postsThisCycle = 0
    /\ sleepsThisCycle = 1
    /\ lastPost = "response"

\* C5: a response with status 204 is reported as sent and a response with any
\* other status as failed; either way send_to_influxdb returns to the loop
\* after that one POST and the process goes on.
C5_StatusClassification ==
    /\ (lastPost = "response" =>
            /\ exit = "none"
            /\ pc # "exited"
            /\ publishOutcome \in {"sent", "failed"}
            /\ (publishOutcome = "sent" <=> status_code = 204))
    /\ (pc = "l_sleep" /\ postsThisCycle > 0 =>
            lastPost = "response" /\ postsThisCycle = 1)

C5_Witness ==
    /\ lastPost = "response"
    /\ status_code = 500
    /\ publishOutcome = "failed"
    /\ postsThisCycle = 1
    /\ pc = "l_top"

\* C6: a transport error of the POST (no response at all) is recovered
\* locally: the process does not terminate.
C6_TransportErrorRecovered ==
    lastPost = "transport_error" => exit = "none" /\ pc # "exited"

\* C7: a sample call hands the loop either two numbers or two None, never one
\* of each; an OSError at any driver call, also after the temperature was
\* read, gives (None, None) and no exception leaves the call.
C7_AllOrNothing ==
    /\ (temperature = None <=> humidity = None)
    /\ (Present(temperature) <=> Present(humidity))
    /\ (pc = "l_if" =>
            /\ exit = "none"
            /\ ("OSError" \in Range(sampleTrace) =>
                    temperature = None /\ humidity = None)
            /\ ("OSError" \notin Range(sampleTrace) =>
                    Present(temperature) /\ Present(humidity)))
    /\ (pc \in SamplePcs => exit = "none")

C7_Witness ==
    /\ pc = "l_if"
    /\ sampleTrace = <<"measure", "temperature", "sleep", "OSError">>
    /\ Present(t_local)
    /\ temperature = None
    /\ humidity = None

\* C8 as stated: every sample call that has returned, with a Reading or
\* without, included the settling delay.
C8_DelayInEverySample ==
    pc = "l_if" => "sleep" \in Range(sampleTrace)

\* C8 (amended): a sample call includes the 1-second settling delay exactly
\* when the trigger and the temperature read both succeeded, once, after them
\* and before the humidity read; so every call that ends with a Reading
\* includes it, and a call whose trigger or temperature read fails returns
\* None, None without any delay.
C8_DelayAfterTemperatureRead ==
    pc = "l_if" =>
        /\ sampleTrace \in {<<"measure", "temperature", "sleep", "humidity">>,
                            <<"measure", "temperature", "sleep", "OSError">>,
                            <<"measure", "OSError">>,
                            <<"OSError">>}
        /\ (Present(temperature) =>
                sampleTrace = <<"measure", "temperature", "sleep", "humidity">>)

C8_Witness ==
    /\ pc = "l_if"
    /\ sampleTrace = <<"measure", "temperature", "sleep", "humidity">>
    /\ Present(temperature)
    /\ Present(humidity)

\* C9: once the Steady loop has been reached the process never terminates.
C9_SteadyNeverTerminates ==
    sensor = "ready" => exit = "none" /\ pc # "exited"

\* C10: every iteration of the loop, with or without a POST, has exactly one
\* inter-cycle sleep, and it lasts reading_wait_time seconds when config.json
\* sets it and 60 seconds when it does not (also when the file is missing,
\* malformed or empty).  An iteration is over when the loop is back at its
\* top or when the process has stopped in it.
ExpectedWait ==
    CASE file = "fast" -> 5
      [] file = "no_influx" -> 120
      [] OTHER -> 60

C10_OneSleepPerCycle ==
    pc \in {"l_top", "exited"} /\ cycle > 0 =>
        sleepsThisCycle = 1 /\ lastSleep = ExpectedWait

\* What does hold of the sleep: never two in an iteration, none before the
\* end of the iteration, and an iteration that returns to the top of the loop
\* slept once, for the configured time or 60 seconds.
SleepDurationWhenReached ==
    /\ sleepsThisCycle <= 1
    /\ (pc \in SamplePcs \cup {"l_if", "p_post", "l_sleep"} => sleepsThisCycle = 0)
    /\ (pc = "l_top" /\ cycle > 0 =>
            sleepsThisCycle = 1 /\ lastSleep = ExpectedWait)
    /\ (cycle = 0 => lastSleep = 0)

ConnectPcs == {"c_enter", "c_if", "c_while", "c_sleep"}

\* C11: when config has no influxdb section the URL built at start-up is
\* exactly localhost:8086/api/v2/write?org=&bucket=&precision=ns.
NoInfluxFiles == {"missing", "malformed", "empty", "no_influx"}

C11_DefaultUrlEmptyOrgBucket ==
    endpointBuilds > 0 /\ file \in NoInfluxFiles =>
        influxdb_url = "localhost:8086/api/v2/write?org=&bucket=&precision=ns"

\* What get_influxdb_url gives without an influxdb section: the default host
\* and port, and None rendered as text for org and bucket.
UrlWithoutInfluxSection ==
    endpointBuilds > 0 /\ file \in NoInfluxFiles =>
        influxdb_url = "localhost:8086/api/v2/write?org=None&bucket=None&precision=ns"

\* C12 as stated: a process started without wifi credentials never gets
\* True from connect_to_wifi and never reaches the Steady loop.
NoCredentialFiles == {"missing", "malformed", "empty", "no_wifi", "blank_ssid"}

C13_LoadNeverAborts ==
    file \in {"missing", "malformed"} /\ pc # "load_config" =>
        /\ DOMAIN config = {}
        /\ ssid = None
        /\ key = None
        /\ timeout_sec = DefaultTimeout
        /\ exit \notin {"FileNotFoundError", "JSONDecodeError"}
        /\ (pc = "exited" => connectResult # "pending")
        /\ (endpointBuilds > 0 =>
                /\ influxdb_url =
                     "localhost:8086/api/v2/write?org=None&bucket=None&precision=ns"
                /\ headers.Authorization = "Token None")
        /\ lastSleep \in {0, 60}

C13_Witness ==
    /\ file = "malformed"
    /\ DOMAIN config = {}
    /\ wlanActive
    /\ connectCalls = 1
    /\ ssid = None
    /\ pc = "c_sleep"

\* C14: with the scenario config, a successful connect and a sample of
\* (21, 40), that iteration issues exactly one POST, to
\* db.local:9999/api/v2/write?org=o&bucket=b&precision=ns, with the body
\* dht_sensor,sensor_id=esp8266 temperature=21.0,humidity=40.0.
C14_EndToEnd ==
    /\ file = "scenario"
    /\ cycle > 0
    /\ pc \in {"l_sleep", "l_top", "exited"}
    /\ temperature = PyInt(21)
    /\ humidity = PyInt(40)
    => /\ postsThisCycle = 1
       /\ request.url = "db.local:9999/api/v2/write?org=o&bucket=b&precision=ns"
       /\ request.data =
            "dht_sensor,sensor_id=esp8266 temperature=21.0,humidity=40.0"
       /\ request.headers.Authorization = "Token tok"

C14_Witness ==
    /\ file = "scenario"
    /\ pc = "l_sleep"
    /\ temperature = PyInt(21)
    /\ humidity = PyInt(40)
    /\ postsThisCycle = 1
    /\ lastPost = "response"
    /\ status_code = 204

\* C15: headers and URL are built once, after connect_to_wifi returned True,
\* and never change afterwards; every POST of every iteration carries them.
C15_EndpointBuiltOnce ==
    /\ [](/\ endpointBuilds <= 1
          /\ (endpointBuilds = 1 => connectResult = "True")
          /\ (endpointBuilds = 0 => cycle = 0 /\ lastPost = "none")
          /\ (lastPost # "none" =>
                request.url = influxdb_url /\ request.headers = headers))
    /\ [][endpointBuilds = 1 =>
            /\ endpointBuilds' = 1
            /\ influxdb_url' = influxdb_url
            /\ headers' = headers]_vars

C15_Witness ==
    /\ file = "fast"
    /\ cycle = 2
    /\ endpointBuilds = 1
    /\ postsThisCycle = 1
    /\ lastPost = "response"
    /\ request.url = "db.local:9999/api/v2/write?org=o&bucket=b&precision=ns"

\* C16: an iteration posts at most once, and only the Reading it has just
\* sampled; an iteration without a Reading posts nothing, also when the
\* previous delivery failed.
ExpectedBody ==
    "dht_sensor,sensor_id=esp8266 temperature=" \o ToString(temperature[2])
      \o ".0,humidity=" \o ToString(humidity[2]) \o ".0"

C16_FailedDeliveryDropped ==
    /\ postsThisCycle <= 1
    /\ (postsThisCycle = 1 =>
            /\ Present(temperature) /\ Present(humidity)
            /\ sampleTrace = <<"measure", "temperature", "sleep", "humidity">>
            /\ request.data = ExpectedBody)
    /\ (pc \in {"l_sleep", "l_top", "exited"} /\ cycle > 0 /\ temperature = None
            => postsThisCycle = 0)

C16_Witness ==
    /\ cycle = 2
    /\ pc = "l_top"
    /\ lastPost = "response"
    /\ status_code = 500
    /\ publishOutcome = "failed"
    /\ temperature = None
    /\ postsThisCycle = 0

\* C17: a call of connect_to_wifi that finds the interface unassociated
\* calls wlan.connect once, and between two consecutive isconnected() polls
\* of the loop there is exactly one 1-second sleep.
C17_OneInitiationOneSleepPerPoll ==
    firstCheck = "False" =>
        /\ connectCalls = 1
        /\ pc \in {"c_while", "c_sleep", "m_branch"}
        /\ Elapsed = pollSleeps
        /\ (pc = "c_while" => pollChecks = pollSleeps)
        /\ (pc \in {"c_sleep", "m_branch"} => pollChecks = pollSleeps + 1)

C17_Witness ==
    /\ firstCheck = "False"
    /\ connectResult = "True"
    /\ connectCalls = 1
    /\ pollSleeps = 2
    /\ pollChecks = 3

\* C18: start-up runs load config, connect, build endpoint, initialise
\* sensor, in this order and each at most once; endpoint and sensor come only
\* after connect_to_wifi returned True; the loop runs only with the sensor
\* initialised; a failed sensor initialisation ends the process at once.
BootOrder == <<"load", "connect", "endpoint", "sensor">>
IsPrefix(a, b) == Len(a) <= Len(b) /\ a = SubSeq(b, 1, Len(a))
LoopPcs == SamplePcs \cup {"l_if", "p_post", "l_sleep"}

C18_BootOrder ==
    /\ IsPrefix(bootTrace, BootOrder)
    /\ (Len(bootTrace) >= 3 => connectResult = "True")
    /\ (sensor = "ready" => bootTrace = BootOrder)
    /\ (cycle > 0 \/ pc \in LoopPcs \/ pc = "l_top" => sensor = "ready")
    /\ (sampleTrace # <<>> => sensor = "ready")
    /\ (bootTrace = BootOrder /\ sensor = "uninit" =>
            /\ pc = "exited"
            /\ exit \in {"ValueError", "OSError"}
            /\ cycle = 0
            /\ lastPost = "none")

C18_Witness ==
    /\ bootTrace = BootOrder
    /\ sensor = "uninit"
    /\ pc = "exited"
    /\ exit = "OSError"

\* C19: if the link comes up at a time t with t - start_time <= timeout_sec
\* and stays up, connect_to_wifi does not return False, and it has returned
\* by t + 1.
C19_AssociationInTimeSucceeds ==
    linkUpAt >= 0 /\ linkUpAt - start_time <= timeout_sec =>
        /\ connectResult # "False"
        /\ now <= linkUpAt + 1
        /\ (connectResult = "pending" /\ now = linkUpAt + 1 => pc = "c_while")

C19_Witness ==
    /\ connectResult = "True"
    /\ timeout_sec > 0
    /\ linkUpAt - start_time = timeout_sec
    /\ now = linkUpAt + 1

\* C20: connect_to_wifi is entered once; in the Steady loop no isconnected()
\* and no wlan.connect is called any more, and with the link down the loop
\* goes on as before: the next sample is taken and a Reading is posted.
Count(seq, x) == Cardinality({i \in DOMAIN seq : seq[i] = x})

C20_ConnectOnlyAtStartup ==
    /\ Count(bootTrace, "connect") <= 1
    /\ connectCalls <= 1
    /\ (sensor = "ready" =>
            /\ Count(bootTrace, "connect") = 1
            /\ pc \notin ConnectPcs
            /\ connectResult = "True"
            /\ connectCalls = (IF firstCheck = "True" THEN 0 ELSE 1)
            /\ pollChecks = (IF firstCheck = "True" THEN 0 ELSE pollSleeps + 1))
    /\ (sensor = "ready" /\ ~associated /\ pc = "l_top" /\ cycle < MaxCycles
            => ENABLED LoopBegin)
    /\ (~associated /\ pc = "s_measure" => ENABLED SampleMeasure)
    /\ (~associated /\ pc = "l_if" /\ Present(temperature) /\ Present(humidity)
            => ENABLED LoopFormat)
    /\ (~associated /\ pc = "p_post"
            => ENABLED (PostResponse \/ PostTransportError))
    /\ (pc \in {"l_sleep", "l_top", "exited"} /\ cycle > 0
          /\ Present(temperature) /\ Present(humidity)
            => postsThisCycle = 1)

C20_Witness ==
    /\ cycle = 2
    /\ connectCalls = 1
    /\ ~associated
    /\ lastPost # "none"
    /\ ~request.link
    /\ postsThisCycle = 1
    /\ Count(bootTrace, "connect") = 1

====
